---- MODULE Spec2Model ----
(***************************************************************************)
(* A model of refig: the PNG and SVG metadata codecs (_png.py, _svg.py)    *)
(* and the persistence orchestrator savefig (_core.py).                    *)
(*                                                                         *)
(* Text is a sequence of one-character strings, bytes are a sequence of    *)
(* integers 0..255.  Python exceptions are modelled as result records      *)
(* whose status names the exception class.                                 *)
(***************************************************************************)
EXTENDS Integers, Sequences, FiniteSets, TLC

(***************************************************************************)
(* Characters and bytes                                                    *)
(***************************************************************************)

\* Printable ASCII, code points 32..126, in order (the grave accent, 96, is
\* written "\\x96": the module's string syntax has no literal for it).
Ascii ==
  << " ", "!", "\"", "#", "$", "%", "&", "'", "(", ")", "*", "+", ",", "-", ".", "/",
     "0", "1", "2", "3", "4", "5", "6", "7", "8", "9", ":", ";", "<", "=", ">", "?",
     "@", "A", "B", "C", "D", "E", "F", "G", "H", "I", "J", "K", "L", "M", "N", "O",
     "P", "Q", "R", "S", "T", "U", "V", "W", "X", "Y", "Z", "[", "\\", "]", "^", "_",
     "\\x96", "a", "b", "c", "d", "e", "f", "g", "h", "i", "j", "k", "l", "m", "n", "o",
     "p", "q", "r", "s", "t", "u", "v", "w", "x", "y", "z", "{", "|", "}", "~" >>

AsciiChars == { Ascii[i] : i \in 1..Len(Ascii) }

OrdTable == [ c \in AsciiChars |-> 31 + (CHOOSE i \in 1..Len(Ascii) : Ascii[i] = c) ]

\* chr(n): printable ASCII, tab, newline and carriage return are themselves;
\* any other character is named by its code point.
Chr(n) ==
  IF n \in 32..126 THEN Ascii[n - 31]
  ELSE IF n = 9 THEN "\t"
  ELSE IF n = 10 THEN "\n"
  ELSE IF n = 13 THEN "\r"
  ELSE "\\u" \o ToString(n)

\* ord(c), for the characters of code point 0..2047
Ord(c) ==
  IF c \in AsciiChars THEN OrdTable[c]
  ELSE IF c = "\t" THEN 9
  ELSE IF c = "\n" THEN 10
  ELSE IF c = "\r" THEN 13
  ELSE CHOOSE n \in (0..2047) \ (32..126) : c = Chr(n)

Min(a, b) == IF a < b THEN a ELSE b
Max(a, b) == IF a < b THEN b ELSE a

\* Python's s[i:j] for 0 <= i, 0 <= j (the slice is clamped to the sequence).
Slice(s, i, j) == SubSeq(s, i + 1, Min(j, Len(s)))

\* Python's s[i:]
SliceFrom(s, i) == SubSeq(s, i + 1, Len(s))

\* s.startswith(p)
StartsWith(s, p) == Len(s) >= Len(p) /\ SubSeq(s, 1, Len(p)) = p

RECURSIVE ConcatRange(_, _, _)
\* parts[lo] + ... + parts[hi], joined half by half
ConcatRange(parts, lo, hi) ==
  IF lo > hi THEN << >>
  ELSE IF lo = hi THEN parts[lo]
  ELSE LET mid == (lo + hi) \div 2
       IN ConcatRange(parts, lo, mid) \o ConcatRange(parts, mid + 1, hi)

\* "".join(parts)
Concat(parts) == ConcatRange(parts, 1, Len(parts))

\* The indices 1..n as a sequence
Indices(n) == [ i \in 1..n |-> i ]

\* str.isspace for one character
IsSpace(c) == c \in {" ", "\t", "\n", "\r"}

\* str.isalnum for one (ASCII) character
IsAlnum(c) ==
  c \in AsciiChars /\ LET n == OrdTable[c] IN
    (48 <= n /\ n <= 57) \/ (65 <= n /\ n <= 90) \/ (97 <= n /\ n <= 122)

IsDigit(c) == c \in {"0", "1", "2", "3", "4", "5", "6", "7", "8", "9"}

\* The regular expression class \w for one character
IsWordChar(c) == IsAlnum(c) \/ c = "_"

\* str.lower for one character
LowerChar(c) ==
  IF c \in AsciiChars /\ OrdTable[c] >= 65 /\ OrdTable[c] <= 90
  THEN Ascii[OrdTable[c] + 32 - 31] ELSE c

\* str.lower
Lower(s) == [ i \in 1..Len(s) |-> LowerChar(s[i]) ]

\* str.strip: the text between the first and the last character that is not
\* whitespace
Strip(s) ==
  LET keep == { k \in 1..Len(s) : ~IsSpace(s[k]) }
  IN IF keep = {} THEN << >>
     ELSE SubSeq(s, CHOOSE k \in keep : \A o \in keep : k <= o,
                    CHOOSE k \in keep : \A o \in keep : o <= k)

\* str.encode("latin-1"), for text of code points below 256
Latin1Encode(s) == [ i \in 1..Len(s) |-> Ord(s[i]) ]

\* bytes.decode("latin-1"): every byte is one character
Latin1Decode(b) == [ i \in 1..Len(b) |-> Chr(b[i]) ]

\* str.encode("utf-8"), for text of code points below 2048: one byte for
\* ASCII, two bytes otherwise
Utf8Encode(s) ==
  Concat([ i \in 1..Len(s) |->
             LET n == Ord(s[i]) IN
               IF n < 128 THEN << n >>
               ELSE << 192 + (n \div 64), 128 + (n % 64) >> ])

\* bytes.decode("utf-8"): ASCII bytes decode to themselves and a well-formed
\* two-byte sequence (lead 0xC2..0xDF, continuation 0x80..0xBF) to its
\* character; any other byte >= 128 raises UnicodeDecodeError (longer
\* sequences do not occur in the model).
Utf8Decode(b) ==
  LET IsLead(k) == b[k] >= 194 /\ b[k] <= 223
      IsCont(k) == b[k] >= 128 /\ b[k] <= 191
      valid == \A k \in 1..Len(b) :
                 \/ b[k] < 128
                 \/ IsLead(k) /\ k < Len(b) /\ IsCont(k + 1)
                 \/ IsCont(k) /\ k > 1 /\ IsLead(k - 1)
      starts == SelectSeq(Indices(Len(b)), LAMBDA k : ~IsCont(k))
      CharAt(k) == IF b[k] < 128 THEN Chr(b[k])
                   ELSE Chr((b[k] - 192) * 64 + (b[k + 1] - 128))
  IN IF valid THEN [ok |-> TRUE, text |-> [ i \in 1..Len(starts) |-> CharAt(starts[i]) ]]
     ELSE [ok |-> FALSE, text |-> << >>]

RECURSIVE StrLess(_, _)
\* a < b for Python strings (code point order)
StrLess(a, b) ==
  IF a = << >> THEN b # << >>
  ELSE IF b = << >> THEN FALSE
  ELSE IF Head(a) = Head(b) THEN StrLess(Tail(a), Tail(b))
  ELSE Ord(Head(a)) < Ord(Head(b))

RECURSIVE SortedKeys(_)
\* sorted(keys)
SortedKeys(S) ==
  IF S = {} THEN << >>
  ELSE LET m == CHOOSE k \in S : \A o \in S \ {k} : StrLess(k, o)
       IN << m >> \o SortedKeys(S \ {m})

(***************************************************************************)
(* JSON: json.dumps(metadata, separators=(",", ":"), sort_keys=True) and   *)
(* json.loads.  A JSON value is a record tagged by t; a Python dict is a   *)
(* function from its keys (text) to JSON values.                           *)
(***************************************************************************)

JStr(s) == [t |-> "str", s |-> s]
JInt(n) == [t |-> "int", n |-> n]
JNull == [t |-> "null"]
JBool(b) == [t |-> "bool", b |-> b]
JObj(m) == [t |-> "obj", m |-> m]

RECURSIVE NatToStr(_)
NatToStr(n) ==
  IF n < 10 THEN << Ascii[n + 17] >>
  ELSE NatToStr(n \div 10) \o << Ascii[(n % 10) + 17] >>

\* str(n) for an int
IntToStr(n) == IF n < 0 THEN << "-" >> \o NatToStr(0 - n) ELSE NatToStr(n)

\* The JSON encoder's escape of one character of a string (ASCII text: the
\* characters json.dumps writes as \uXXXX do not occur in the model).
EscapeJsonChar(c) ==
  IF c = "\"" THEN << "\\", "\"" >>
  ELSE IF c = "\\" THEN << "\\", "\\" >>
  ELSE IF c = "\n" THEN << "\\", "n" >>
  ELSE IF c = "\t" THEN << "\\", "t" >>
  ELSE IF c = "\r" THEN << "\\", "r" >>
  ELSE << c >>

\* json.dumps of a str
DumpsStr(s) ==
  << "\"" >> \o Concat([ i \in 1..Len(s) |-> EscapeJsonChar(s[i]) ]) \o << "\"" >>

RECURSIVE JoinWith(_, _)
\* sep.join(parts)
JoinWith(sep, parts) ==
  IF parts = << >> THEN << >>
  ELSE IF Len(parts) = 1 THEN parts[1]
  ELSE parts[1] \o sep \o JoinWith(sep, Tail(parts))

RECURSIVE DumpsValue(_)
\* json.dumps(v, separators=(",", ":"), sort_keys=True) of one JSON value
DumpsValue(v) ==
  CASE v.t = "str" -> DumpsStr(v.s)
    [] v.t = "int" -> IntToStr(v.n)
    [] v.t = "null" -> << "n", "u", "l", "l" >>
    [] v.t = "bool" -> IF v.b THEN << "t", "r", "u", "e" >>
                       ELSE << "f", "a", "l", "s", "e" >>
    [] v.t = "obj" ->
         LET keys == SortedKeys(DOMAIN v.m)
             items == [ i \in 1..Len(keys) |->
                          DumpsStr(keys[i]) \o << ":" >> \o DumpsValue(v.m[keys[i]]) ]
         IN << "{" >> \o JoinWith(<< "," >>, items) \o << "}" >>

\* json.dumps(metadata, separators=(",", ":"), sort_keys=True)
JsonDumps(metadata) == DumpsValue(JObj(metadata))

JsonFail == [ok |-> FALSE, next |-> 0]

\* The JSON decoder's whitespace skip: the first index >= i that holds no
\* whitespace (Len(t) + 1 at the end of the text).
SkipWs(t, i) ==
  IF i > Len(t) \/ t[i] \notin {" ", "\t", "\n", "\r"} THEN i
  ELSE LET stops == { k \in i..Len(t) : t[k] \notin {" ", "\t", "\n", "\r"} }
       IN IF stops = {} THEN Len(t) + 1
          ELSE CHOOSE k \in stops : \A o \in stops : k <= o

\* The number of consecutive backslashes that end just before index j, not
\* counting any before index from
BackslashRun(t, from, j) ==
  LET stops == { k \in from..(j - 1) : t[k] # "\\" }
      last == IF stops = {} THEN from - 1
              ELSE CHOOSE k \in stops : \A o \in stops : o <= k
  IN j - 1 - last

\* The JSON decoder's string scanner, after the opening quote at i - 1: the
\* string ends at the first quote that no backslash escapes.  A character
\* after an escaping backslash is decoded; the escapes \b, \f and \uXXXX,
\* which the encoder never writes for the model's text, are not decoded, and
\* a raw control character is an error.
ScanString(t, i) ==
  LET Escaped(j) == BackslashRun(t, i, j) % 2 = 1
      ends == { j \in i..Len(t) : t[j] = "\"" /\ ~Escaped(j) }
  IN IF ends = {} THEN JsonFail
     ELSE LET end == CHOOSE j \in ends : \A o \in ends : j <= o
              Intro(j) == t[j] = "\\" /\ ~Escaped(j)
              Decoded(j) ==
                IF ~Escaped(j) THEN t[j]
                ELSE IF t[j] = "n" THEN "\n"
                ELSE IF t[j] = "t" THEN "\t"
                ELSE IF t[j] = "r" THEN "\r"
                ELSE t[j]
              bad == \E j \in i..(end - 1) :
                       \/ Escaped(j) /\ t[j] \notin {"\"", "\\", "/", "n", "t", "r"}
                       \/ ~Escaped(j) /\ t[j] \in {"\n", "\t", "\r"}
              kept == SelectSeq([ k \in 1..(end - i) |-> i + k - 1 ],
                                LAMBDA j : ~Intro(j))
          IN IF bad THEN JsonFail
             ELSE [ok |-> TRUE, next |-> end + 1,
                   v |-> JStr([ k \in 1..Len(kept) |-> Decoded(kept[k]) ])]

RECURSIVE DigitsValue(_, _, _)
\* int() of the digits t[lo..hi]
DigitsValue(t, lo, hi) ==
  IF hi < lo THEN 0 ELSE DigitsValue(t, lo, hi - 1) * 10 + (Ord(t[hi]) - 48)

\* The run of digits that starts at index j
ScanDigits(t, j) ==
  LET stops == { k \in j..Len(t) : ~IsDigit(t[k]) }
      next == IF stops = {} THEN Len(t) + 1
              ELSE CHOOSE k \in stops : \A o \in stops : k <= o
  IN [next |-> next, n |-> DigitsValue(t, j, next - 1)]

\* The JSON decoder's number scanner for integers: -?(0|[1-9][0-9]*)
ScanInt(t, i) ==
  LET neg == t[i] = "-"
      j == IF neg THEN i + 1 ELSE i
  IN IF j > Len(t) \/ ~IsDigit(t[j]) THEN JsonFail
     ELSE IF t[j] = "0" THEN [ok |-> TRUE, next |-> j + 1, v |-> JInt(0)]
     ELSE LET d == ScanDigits(t, j)
          IN [ok |-> TRUE, next |-> d.next, v |-> JInt(IF neg THEN 0 - d.n ELSE d.n)]

RECURSIVE ParseValue(_, _)
RECURSIVE ParseMembers(_, _, _)

\* One JSON value starting at index i (whitespace already skipped)
ParseValue(t, i) ==
  IF i > Len(t) THEN JsonFail
  ELSE IF t[i] = "\"" THEN ScanString(t, i + 1)
  ELSE IF t[i] = "{" THEN
    LET j == SkipWs(t, i + 1) IN
      IF j <= Len(t) /\ t[j] = "}"
      THEN [ok |-> TRUE, next |-> j + 1, v |-> JObj(<< >>)]
      ELSE ParseMembers(t, j, << >>)
  ELSE IF t[i] = "-" \/ IsDigit(t[i]) THEN ScanInt(t, i)
  ELSE IF Slice(t, i - 1, i + 3) = << "n", "u", "l", "l" >>
    THEN [ok |-> TRUE, next |-> i + 4, v |-> JNull]
  ELSE IF Slice(t, i - 1, i + 3) = << "t", "r", "u", "e" >>
    THEN [ok |-> TRUE, next |-> i + 4, v |-> JBool(TRUE)]
  ELSE IF Slice(t, i - 1, i + 4) = << "f", "a", "l", "s", "e" >>
    THEN [ok |-> TRUE, next |-> i + 5, v |-> JBool(FALSE)]
  ELSE JsonFail

\* The members of an object, from the key at index i; acc is the dict so far
\* (a repeated key keeps its last value).
ParseMembers(t, i, acc) ==
  IF i > Len(t) \/ t[i] # "\"" THEN JsonFail
  ELSE LET k == ScanString(t, i + 1) IN
    IF ~k.ok THEN JsonFail
    ELSE LET c == SkipWs(t, k.next) IN
      IF c > Len(t) \/ t[c] # ":" THEN JsonFail
      ELSE LET val == ParseValue(t, SkipWs(t, c + 1)) IN
        IF ~val.ok THEN JsonFail
        ELSE LET key == k.v.s
                 dict == [ x \in (DOMAIN acc) \cup {key} |->
                             IF x = key THEN val.v ELSE acc[x] ]
                 e == SkipWs(t, val.next)
             IN IF e > Len(t) THEN JsonFail
                ELSE IF t[e] = "}" THEN [ok |-> TRUE, next |-> e + 1, v |-> JObj(dict)]
                ELSE IF t[e] = "," THEN ParseMembers(t, SkipWs(t, e + 1), dict)
                ELSE JsonFail

\* json.loads(text): [ok, value]; ok = FALSE is JSONDecodeError
JsonLoads(text) ==
  LET r == ParseValue(text, SkipWs(text, 1)) IN
    IF r.ok /\ SkipWs(text, r.next) = Len(text) + 1
    THEN [ok |-> TRUE, value |-> r.v]
    ELSE [ok |-> FALSE]

(***************************************************************************)
(* _png.py: the PNG codec                                                  *)
(***************************************************************************)

\* PNG_SIGNATURE = b"\x89PNG\r\n\x1a\n"
PNG_SIGNATURE == << 137, 80, 78, 71, 13, 10, 26, 10 >>

\* _METADATA_KEYWORD = "refig"
METADATA_KEYWORD == << "r", "e", "f", "i", "g" >>

\* b"tEXt"
TEXT_TYPE == << 116, 69, 88, 116 >>

\* struct.pack(">I", n) for 0 <= n < 2^31
PackU32(n) ==
  << (n \div 16777216) % 256, (n \div 65536) % 256, (n \div 256) % 256, n % 256 >>

\* struct.unpack(">I", b)[0] for four bytes
UnpackU32(b) == b[1] * 16777216 + b[2] * 65536 + b[3] * 256 + b[4]

\* CRC-32 works on 32-bit words, written as the set of their one bits
\* (bit 0 is the least significant).  The reflected polynomial 0xEDB88320:
CRC_POLY == {31, 30, 29, 27, 26, 24, 23, 21, 20, 19, 15, 9, 8, 5}

BitXor(a, b) == { i \in 0..31 : (i \in a) # (i \in b) }

BitsOfByte(n) == { i \in 0..7 : (n \div (2 ^ i)) % 2 = 1 }

\* One bit of the CRC register: shift right, and xor the polynomial in when
\* a one bit is shifted out.
CrcShift(crc) ==
  LET sh == { i \in 0..30 : (i + 1) \in crc }
  IN IF 0 \in crc THEN BitXor(sh, CRC_POLY) ELSE sh

\* The CRC table: entry n is the register after the eight bits of byte n
CRC_TABLE ==
  [ n \in 0..255 |->
      CrcShift(CrcShift(CrcShift(CrcShift(CrcShift(CrcShift(CrcShift(CrcShift(
        BitsOfByte(n))))))))) ]

\* The byte made of bits 8k .. 8k+7 of a word
ByteOfBits(bits, k) ==
  LET B(i) == IF (8 * k + i) \in bits THEN 2 ^ i ELSE 0
  IN B(0) + B(1) + B(2) + B(3) + B(4) + B(5) + B(6) + B(7)

\* One byte: crc = table[(crc ^ byte) & 0xFF] ^ (crc >> 8)
CrcByte(crc, byte) ==
  LET low == BitXor({ i \in crc : i < 8 }, BitsOfByte(byte))
  IN BitXor(CRC_TABLE[ByteOfBits(low, 0)], { i \in 0..23 : (i + 8) \in crc })

RECURSIVE CrcRange(_, _, _, _)
\* The register after the bytes data[lo..hi] are fed in, in order: the run
\* is fed as its first half followed by its second half.  (The test on the
\* register of the first half makes the evaluator compute it before the
\* second half is taken.)
CrcRange(crc, data, lo, hi) ==
  IF lo > hi THEN crc
  ELSE IF lo = hi THEN CrcByte(crc, data[lo])
  ELSE LET mid == (lo + hi) \div 2
           left == CrcRange(crc, data, lo, mid)
       IN IF left \subseteq 0..31 THEN CrcRange(left, data, mid + 1, hi) ELSE left

\* struct.pack(">I", zlib.crc32(data) & 0xFFFFFFFF): the four bytes, most
\* significant first, of the CRC-32 of data
Crc32Packed(data) ==
  LET reg == CrcRange(0..31, data, 1, Len(data))
      crc == { i \in 0..31 : i \notin reg }
  IN << ByteOfBits(crc, 3), ByteOfBits(crc, 2), ByteOfBits(crc, 1), ByteOfBits(crc, 0) >>

\* _build_text_chunk(keyword, text)
BuildTextChunk(keyword, text) ==
  LET keyword_bytes == Latin1Encode(keyword)
      text_bytes == Utf8Encode(text)
      chunk_data == keyword_bytes \o << 0 >> \o text_bytes
      chunk_type == TEXT_TYPE
      length == PackU32(Len(chunk_data))
      crc == Crc32Packed(chunk_type \o chunk_data)
  IN length \o chunk_type \o chunk_data \o crc

\* An embed_metadata that puts the new chunk after the chunks at hand
\* instead of before them: the order C3 speaks of is lost
EmbedPngAtEnd(png_bytes, metadata) ==
  IF ~StartsWith(png_bytes, PNG_SIGNATURE) THEN [status |-> "PNGMetadataError"]
  ELSE LET payload == JsonDumps(metadata)
           chunk == BuildTextChunk(METADATA_KEYWORD, payload)
       IN [status |-> "ok", bytes |-> png_bytes \o chunk]

\* embed_metadata(png_bytes, metadata) of _png.py
EmbedPng(png_bytes, metadata) ==
  IF ~StartsWith(png_bytes, PNG_SIGNATURE) THEN [status |-> "PNGMetadataError"]
  ELSE LET payload == JsonDumps(metadata)
           chunk == BuildTextChunk(METADATA_KEYWORD, payload)
       IN [status |-> "ok",
           bytes |-> PNG_SIGNATURE \o chunk \o SliceFrom(png_bytes, Len(PNG_SIGNATURE))]

RECURSIVE IterChunksFrom(_, _, _)
\* The loop of _iter_chunks: index is the offset after length_bytes was
\* sliced.  The result lists the chunks yielded, in order, and says whether
\* the generator then raised struct.error (a length field of 1..3 bytes).
IterChunksFrom(png_bytes, index, length_bytes) ==
  IF length_bytes = << >> THEN [chunks |-> << >>, error |-> FALSE]
  ELSE IF Len(length_bytes) < 4 THEN [chunks |-> << >>, error |-> TRUE]
  ELSE LET length == UnpackU32(length_bytes)
           chunk_type == Slice(png_bytes, index + 4, index + 8)
           chunk_data == Slice(png_bytes, index + 8, index + 8 + length)
           next == index + 8 + length + 4
           this == [type |-> chunk_type, data |-> chunk_data]
       IN IF next >= Len(png_bytes) THEN [chunks |-> << this >>, error |-> FALSE]
          ELSE LET rest == IterChunksFrom(png_bytes, next, Slice(png_bytes, next, next + 4))
               IN [chunks |-> << this >> \o rest.chunks, error |-> rest.error]

\* _iter_chunks(png_bytes)
IterChunks(png_bytes) ==
  IterChunksFrom(png_bytes, Len(PNG_SIGNATURE),
                 Slice(png_bytes, Len(PNG_SIGNATURE), Len(PNG_SIGNATURE) + 4))

\* bytes.partition(b"\x00"): the index of the first zero byte, 0 if none
FirstZero(b) ==
  IF \E i \in 1..Len(b) : b[i] = 0
  THEN CHOOSE i \in 1..Len(b) : b[i] = 0 /\ \A j \in 1..(i - 1) : b[j] # 0
  ELSE 0

\* _split_text_chunk(chunk_data)
SplitTextChunk(chunk_data) ==
  LET z == FirstZero(chunk_data)
      keyword == IF z = 0 THEN chunk_data ELSE SubSeq(chunk_data, 1, z - 1)
      text == IF z = 0 THEN << >> ELSE SubSeq(chunk_data, z + 1, Len(chunk_data))
  IN IF keyword = << >> THEN [status |-> "PNGMetadataError"]
     ELSE LET t == Utf8Decode(text) IN
       IF ~t.ok THEN [status |-> "UnicodeDecodeError"]
       ELSE [status |-> "ok", keyword |-> Latin1Decode(keyword), text |-> t.text]

RECURSIVE ExtractFromChunks(_, _, _)
\* The for loop of extract_metadata over the (lazy) chunk generator
ExtractFromChunks(chunks, i, error) ==
  IF i > Len(chunks)
  THEN IF error THEN [status |-> "struct.error"] ELSE [status |-> "PNGMetadataError"]
  ELSE IF chunks[i].type = TEXT_TYPE THEN
    LET kt == SplitTextChunk(chunks[i].data) IN
      IF kt.status # "ok" THEN [status |-> kt.status]
      ELSE IF kt.keyword = METADATA_KEYWORD THEN
        LET v == JsonLoads(kt.text) IN
          IF v.ok THEN [status |-> "ok", value |-> v.value]
          ELSE [status |-> "JSONDecodeError"]
      ELSE ExtractFromChunks(chunks, i + 1, error)
  ELSE ExtractFromChunks(chunks, i + 1, error)

\* extract_metadata(png_bytes) of _png.py
ExtractPng(png_bytes) ==
  IF ~StartsWith(png_bytes, PNG_SIGNATURE) THEN [status |-> "PNGMetadataError"]
  ELSE LET it == IterChunks(png_bytes)
       IN ExtractFromChunks(it.chunks, 1, it.error)

(***************************************************************************)
(* _svg.py: the SVG codec                                                  *)
(***************************************************************************)

\* Whether the text holds the literal lit at index p, ignoring case
\* (lit is lower case)
HasAtCI(text, p, lit) ==
  /\ p >= 1 /\ p + Len(lit) - 1 <= Len(text)
  /\ \A k \in 1..Len(lit) : LowerChar(text[p + k - 1]) = lit[k]

\* The least member of a non-empty set of integers
Least(S) == CHOOSE k \in S : \A o \in S : k <= o

\* The index of the first ">" at or after index p, 0 if there is none
FirstGt(text, p) ==
  LET S == { k \in p..Len(text) : text[k] = ">" }
  IN IF S = {} THEN 0 ELSE Least(S)

LitMetadataOpen == << "<", "m", "e", "t", "a", "d", "a", "t", "a" >>
LitMetadataClose == << "<", "/", "m", "e", "t", "a", "d", "a", "t", "a", ">" >>
LitIdEq == << "i", "d", "=" >>
LitRefig == << "r", "e", "f", "i", "g" >>
LitSvgOpen == << "<", "s", "v", "g" >>

\* \bid=(?P<quote>['"])refig(?P=quote) at index q: a word boundary before
\* the i, then id=, a quote, refig and the same quote
IdAttrAt(text, q) ==
  /\ q > 1 /\ ~IsWordChar(text[q - 1])
  /\ HasAtCI(text, q, LitIdEq)
  /\ q + 9 <= Len(text)
  /\ text[q + 3] \in {"'", "\""}
  /\ HasAtCI(text, q + 4, LitRefig)
  /\ text[q + 9] = text[q + 3]

\* _METADATA_PATTERN matched at index p (flags DOTALL | IGNORECASE):
\*   <metadata\b[^>]*\bid=(?P<quote>['"])refig(?P=quote)[^>]*>(?P<body>.*?)</metadata>
\* The tag runs to the first ">" after <metadata, the id attribute lies
\* before it, and the body runs to the first </metadata> after the tag.
\* The result gives the body as the 0-based span [start, end) of Python's
\* match.span("body"), and the end of the whole match.
MetadataMatchAt(text, p) ==
  IF ~HasAtCI(text, p, LitMetadataOpen) THEN [found |-> FALSE]
  ELSE IF p + 9 <= Len(text) /\ IsWordChar(text[p + 9]) THEN [found |-> FALSE]
  ELSE LET g == FirstGt(text, p + 9) IN
    IF g = 0 THEN [found |-> FALSE]
    ELSE IF ~\E q \in (p + 10)..(g - 10) : IdAttrAt(text, q) THEN [found |-> FALSE]
    ELSE LET closes == { e \in (g + 1)..Len(text) : HasAtCI(text, e, LitMetadataClose) }
         IN IF closes = {} THEN [found |-> FALSE]
            ELSE [found |-> TRUE, start |-> g, end |-> Least(closes) - 1,
                  matchEnd |-> Least(closes) + Len(LitMetadataClose) - 1]

\* _METADATA_PATTERN.search(text) from 0-based position pos on: the leftmost
\* match
MetadataSearchFrom(text, pos) ==
  LET S == { p \in (pos + 1)..Len(text) : MetadataMatchAt(text, p).found }
  IN IF S = {} THEN [found |-> FALSE] ELSE MetadataMatchAt(text, Least(S))

\* _METADATA_PATTERN.search(text)
MetadataSearch(text) == MetadataSearchFrom(text, 0)

\* _SVG_OPEN_TAG_PATTERN.search(text), the pattern <svg\b[^>]*> with flag
\* IGNORECASE: [found, end] with end the 0-based match.end()
SvgOpenTagSearch(text) ==
  LET S == { p \in 1..Len(text) :
               /\ HasAtCI(text, p, LitSvgOpen)
               /\ p + 4 <= Len(text) /\ ~IsWordChar(text[p + 4])
               /\ FirstGt(text, p + 4) # 0 }
  IN IF S = {} THEN [found |-> FALSE]
     ELSE [found |-> TRUE, end |-> FirstGt(text, Least(S) + 4)]

\* html.escape(s) (quote=True)
HtmlEscape(s) ==
  Concat([ i \in 1..Len(s) |->
             IF s[i] = "&" THEN << "&", "a", "m", "p", ";" >>
             ELSE IF s[i] = "<" THEN << "&", "l", "t", ";" >>
             ELSE IF s[i] = ">" THEN << "&", "g", "t", ";" >>
             ELSE IF s[i] = "\"" THEN << "&", "q", "u", "o", "t", ";" >>
             ELSE IF s[i] = "'" THEN << "&", "#", "x", "2", "7", ";" >>
             ELSE << s[i] >> ])

\* The character references html.escape writes, and what each stands for
HtmlEntities ==
  { [ref |-> << "&", "a", "m", "p", ";" >>, char |-> "&"],
    [ref |-> << "&", "l", "t", ";" >>, char |-> "<"],
    [ref |-> << "&", "g", "t", ";" >>, char |-> ">"],
    [ref |-> << "&", "q", "u", "o", "t", ";" >>, char |-> "\""],
    [ref |-> << "&", "#", "x", "2", "7", ";" >>, char |-> "'"] }

\* html.unescape(s), for the references html.escape writes (text holding
\* other references does not occur in the model): every reference is
\* replaced by its character, in one pass
HtmlUnescape(s) ==
  LET RefAt(k) == { e \in HtmlEntities : Slice(s, k - 1, k - 1 + Len(e.ref)) = e.ref }
      Covered(k) == \E j \in 1..(k - 1) : \E e \in RefAt(j) : k <= j + Len(e.ref) - 1
      kept == SelectSeq(Indices(Len(s)), LAMBDA k : ~Covered(k))
  IN [ i \in 1..Len(kept) |->
         IF RefAt(kept[i]) = {} THEN s[kept[i]]
         ELSE (CHOOSE e \in RefAt(kept[i]) : TRUE).char ]

\* The element embed_metadata inserts:  f"\n  <metadata id=\"refig\">{...}</metadata>\n"
InsertedElement(escaped_payload) ==
  << "\n", " ", " ", "<", "m", "e", "t", "a", "d", "a", "t", "a", " ",
     "i", "d", "=", "\"", "r", "e", "f", "i", "g", "\"", ">" >>
  \o escaped_payload
  \o << "<", "/", "m", "e", "t", "a", "d", "a", "t", "a", ">", "\n" >>

\* embed_metadata(svg_bytes, metadata) of _svg.py
EmbedSvg(svg_bytes, metadata) ==
  LET dec == Utf8Decode(svg_bytes) IN
    IF ~dec.ok THEN [status |-> "SVGMetadataError"]
    ELSE LET text == dec.text
             payload == JsonDumps(metadata)
             escaped_payload == HtmlEscape(payload)
             match == MetadataSearch(text)
         IN IF match.found
            THEN [status |-> "ok",
                  bytes |-> Utf8Encode(Slice(text, 0, match.start) \o escaped_payload
                                       \o SliceFrom(text, match.end))]
            ELSE LET svg_match == SvgOpenTagSearch(text) IN
              IF ~svg_match.found THEN [status |-> "SVGMetadataError"]
              ELSE [status |-> "ok",
                    bytes |-> Utf8Encode(Slice(text, 0, svg_match.end)
                                         \o InsertedElement(escaped_payload)
                                         \o SliceFrom(text, svg_match.end))]

\* extract_metadata(svg_bytes) of _svg.py
ExtractSvg(svg_bytes) ==
  LET dec == Utf8Decode(svg_bytes) IN
    IF ~dec.ok THEN [status |-> "SVGMetadataError"]
    ELSE LET match == MetadataSearch(dec.text) IN
      IF ~match.found THEN [status |-> "SVGMetadataError"]
      ELSE LET payload == Strip(HtmlUnescape(Slice(dec.text, match.start, match.end))) IN
        IF payload = << >> THEN [status |-> "SVGMetadataError"]
        ELSE LET v == JsonLoads(payload) IN
          IF v.ok THEN [status |-> "ok", value |-> v.value]
          ELSE [status |-> "JSONDecodeError"]

(***************************************************************************)
(* State                                                                   *)
(***************************************************************************)

VARIABLES
  png,          \* PNG codec: the image bytes at hand
  pngIn,        \* the bytes the last embed_metadata call was given
  pngEmbedded,  \* the metadata of the embed_metadata calls made, in order
  pngCut,       \* whether the image was cut short
  svg,          \* SVG codec: the document bytes at hand
  svgIn,        \* the bytes the last embed_metadata call was given
  svgEmbedded,  \* the metadata of the embed_metadata calls made, in order
  svgChildren,  \* the child elements the input document was given, in order
  clock,        \* the system clock: half seconds elapsed since ClockBase
  gitHead,      \* what git rev-parse HEAD answers: a revision or None
  hName,        \* history path: the figure name
  hExtra,       \* the caller's metadata
  hRecord,      \* the record _build_metadata returned, once it has
  hPath,        \* the path _build_history_path returned, once it has
  hTs,          \* its timestamp token
  hRev,         \* its revision token
  fs,           \* savefig: the directories and files under the working directory
  calls         \* the savefig calls made, in order, with their outcomes

pngVars == << png, pngIn, pngEmbedded, pngCut >>
svgVars == << svg, svgIn, svgEmbedded, svgChildren >>

histVars == << hName, hExtra, hRecord, hPath, hTs, hRev >>
saveVars == << fs, calls >>
envVars == << clock, gitHead >>

vars == << png, pngIn, pngEmbedded, pngCut, svg, svgIn, svgEmbedded, svgChildren,
           clock, gitHead, hName, hExtra, hRecord, hPath, hTs, hRev, fs, calls >>

(***************************************************************************)
(* Bounds and inputs                                                       *)
(***************************************************************************)

\* The chunks of an input PNG, at most
MaxChunks == 2

\* The child elements of an input SVG, at most
MaxChildren == 2

\* The successive embed_metadata calls on one image, at most
MaxEmbeds == 2

\* The half seconds the clock advances, at most
MaxTicks == 2

\* The savefig calls of one run, at most
MaxSaves == 2

KeyA == << "a" >>
KeyB == << "b" >>

\* The metadata mappings the codecs are given
Metadatas ==
  { << >>,
    [ k \in {KeyA} |-> JInt(1) ],
    [ k \in {KeyA, KeyB} |->
        IF k = KeyA THEN JStr(<< "<", "&", "\"", "'", ">", "\\" >>) ELSE JNull ] }

\* One whole chunk: length, type, data, CRC
WholeChunk(type, data) ==
  PackU32(Len(data)) \o type \o data \o Crc32Packed(type \o data)

\* The chunks input images are made of: image data, a tEXt chunk whose
\* text is Latin-1 (as the PNG format has it), and the metadata chunk of an
\* earlier refig save.
InputChunks ==
  { WholeChunk(<< 73, 68, 65, 84 >>, << 7, 0 >>),
    WholeChunk(TEXT_TYPE, << 107, 0, 233 >>),
    BuildTextChunk(METADATA_KEYWORD, JsonDumps([ k \in {KeyB} |-> JInt(2) ])) }

\* What precedes the root element of an input SVG: nothing, or a comment
\* that quotes the opening tag of the metadata element
SvgProlog ==
  { << >>,
    << "<", "!", "-", "-", " ", "<", "m", "e", "t", "a", "d", "a", "t",
       "a", " ", "i", "d", "=", "\"", "r", "e", "f", "i", "g", "\"", ">",
       " ", "-", "-", ">" >> }

SvgRootOpen == << "<", "s", "v", "g", ">" >>
SvgRootClose == << "<", "/", "s", "v", "g", ">" >>

\* The child elements input SVGs are made of: a group, the metadata element
\* of an earlier refig save, an empty metadata element in upper case with a
\* single-quoted id, and a metadata element of another id
SvgChildElements ==
  { << "<", "g", "/", ">" >>,
    << "<", "m", "e", "t", "a", "d", "a", "t", "a", " ", "i", "d", "=",
       "\"", "r", "e", "f", "i", "g", "\"", ">", "{", "&", "q", "u", "o",
       "t", ";", "b", "&", "q", "u", "o", "t", ";", ":", "2", "}", "<",
       "/", "m", "e", "t", "a", "d", "a", "t", "a", ">" >>,
    << "<", "M", "E", "T", "A", "D", "A", "T", "A", " ", "I", "D", "=",
       "'", "r", "e", "f", "i", "g", "'", ">", " ", "<", "/", "M", "E",
       "T", "A", "D", "A", "T", "A", ">" >>,
    << "<", "m", "e", "t", "a", "d", "a", "t", "a", " ", "i", "d", "=",
       "\"", "o", "t", "h", "e", "r", "\"", ">", "x", "<", "/", "m", "e",
       "t", "a", "d", "a", "t", "a", ">" >> }

PngIdle ==
  /\ png = PNG_SIGNATURE
  /\ pngIn = PNG_SIGNATURE
  /\ pngEmbedded = << >>
  /\ pngCut = FALSE

SvgIdle ==
  /\ svg = Utf8Encode(SvgRootOpen \o SvgRootClose)
  /\ svgIn = svg
  /\ svgEmbedded = << >>
  /\ svgChildren = << >>


HistIdle ==
  /\ hName = << >>
  /\ hExtra = << >>
  /\ hRecord = << >>
  /\ hPath = << >>
  /\ hTs = << >>
  /\ hRev = << >>

SaveIdle ==
  /\ fs = [dirs |-> {}, files |-> << >>]
  /\ calls = << >>

EnvIdle ==
  /\ clock = 0
  /\ gitHead = JNull

(***************************************************************************)
(* The PNG codec on images made of whole chunks, possibly cut short        *)
(***************************************************************************)

PngInit == PngIdle /\ SvgIdle /\ HistIdle /\ SaveIdle /\ EnvIdle

\* The input grows by one whole chunk
PngAppendChunk(c) ==
  /\ pngEmbedded = << >>
  /\ ~pngCut
  /\ Len(IterChunks(png).chunks) < MaxChunks
  /\ png' = png \o c
  /\ pngIn' = png \o c
  /\ UNCHANGED << pngEmbedded, pngCut, svgVars, histVars, saveVars, envVars >>

\* The input is cut short inside a chunk: n bytes remain
PngTruncate(n) ==
  /\ pngEmbedded = << >>
  /\ ~pngCut
  /\ n > Len(PNG_SIGNATURE) /\ n < Len(png)
  /\ png' = SubSeq(png, 1, n)
  /\ pngIn' = SubSeq(png, 1, n)
  /\ pngCut' = TRUE
  /\ UNCHANGED << pngEmbedded, svgVars, histVars, saveVars, envVars >>

\* embed_metadata(png, m)
PngEmbed(m) ==
  /\ Len(pngEmbedded) < MaxEmbeds
  /\ LET r == EmbedPng(png, m) IN
       /\ r.status = "ok"
       /\ png' = r.bytes
  /\ pngIn' = png
  /\ pngEmbedded' = Append(pngEmbedded, m)
  /\ UNCHANGED << pngCut, svgVars, histVars, saveVars, envVars >>

PngNext ==
  \/ \E c \in InputChunks : PngAppendChunk(c)
  \/ \E n \in 1..Len(png) : PngTruncate(n)
  \/ \E m \in Metadatas : PngEmbed(m)

SpecPng == PngInit /\ [][PngNext]_vars

(***************************************************************************)
(* The SVG codec on well-formed documents                                  *)
(***************************************************************************)

SvgInit ==
  /\ PngIdle /\ HistIdle /\ SaveIdle /\ EnvIdle
  /\ \E prolog \in SvgProlog : svg = Utf8Encode(prolog \o SvgRootOpen \o SvgRootClose)
  /\ svgIn = svg
  /\ svgEmbedded = << >>
  /\ svgChildren = << >>

\* The input grows by one child element, put last in the root element.  An
\* id names one element of a document, so a second element of the reserved
\* id is never added.
SvgAddChild(e) ==
  /\ svgEmbedded = << >>
  /\ Len(svgChildren) < MaxChildren
  /\ MetadataSearch(e).found =>
       \A i \in 1..Len(svgChildren) : ~MetadataSearch(svgChildren[i]).found
  /\ LET body == SubSeq(svg, 1, Len(svg) - Len(SvgRootClose))
         doc == body \o Utf8Encode(e \o SvgRootClose)
     IN svg' = doc /\ svgIn' = doc
  /\ svgChildren' = Append(svgChildren, e)
  /\ UNCHANGED << svgEmbedded, pngVars, histVars, saveVars, envVars >>

\* embed_metadata(svg, m)
SvgEmbed(m) ==
  /\ Len(svgEmbedded) < MaxEmbeds
  /\ LET r == EmbedSvg(svg, m) IN
       /\ r.status = "ok"
       /\ svg' = r.bytes
  /\ svgIn' = svg
  /\ svgEmbedded' = Append(svgEmbedded, m)
  /\ UNCHANGED << svgChildren, pngVars, histVars, saveVars, envVars >>

SvgNext ==
  \/ \E e \in SvgChildElements : SvgAddChild(e)
  \/ \E m \in Metadatas : SvgEmbed(m)

SpecSvg == SvgInit /\ [][SvgNext]_vars

(***************************************************************************)
(* The codecs' claims                                                      *)
(***************************************************************************)

\* The reserved blocks of a PNG: its tEXt chunks whose keyword is refig
PngRefigChunks(bytes) ==
  LET chunks == IterChunks(bytes).chunks
      KeywordOf(data) ==
        IF FirstZero(data) = 0 THEN data ELSE SubSeq(data, 1, FirstZero(data) - 1)
  IN { i \in 1..Len(chunks) :
         /\ chunks[i].type = TEXT_TYPE
         /\ KeywordOf(chunks[i].data) = Latin1Encode(METADATA_KEYWORD) }

RECURSIVE SvgRefigElementsFrom(_, _)
\* The reserved blocks of an SVG from 0-based position pos on: the successive
\* matches of the metadata pattern, counted
SvgRefigElementsFrom(text, pos) ==
  LET m == MetadataSearchFrom(text, pos)
  IN IF m.found THEN 1 + SvgRefigElementsFrom(text, m.matchEnd) ELSE 0

\* The reserved blocks of an SVG, counted
SvgRefigElements(bytes) == SvgRefigElementsFrom(Utf8Decode(bytes).text, 0)

\* The last element of a sequence
Last(seq) == seq[Len(seq)]

\* What extract_metadata gives when it returns the mapping m
Extracted(m) == [status |-> "ok", value |-> JObj(m)]

\* C1: extract_metadata(embed_metadata(I, M)) returns exactly M, for the PNG
\* codec and for the SVG codec, for every well-formed image I.
C1_RoundTrip ==
  /\ pngEmbedded # << >> => ExtractPng(png) = Extracted(Last(pngEmbedded))
  /\ svgEmbedded # << >> => ExtractSvg(svg) = Extracted(Last(svgEmbedded))

\* C2: after embedding M1 and then M2, extract_metadata returns M2 and the
\* artifact holds exactly one reserved block; after any number of embeds it
\* holds at most one.
C2_ReembedOneBlock ==
  /\ Len(pngEmbedded) >= 2 =>
       /\ ExtractPng(png) = Extracted(Last(pngEmbedded))
       /\ Cardinality(PngRefigChunks(png)) = 1
  /\ Len(pngEmbedded) >= 1 => Cardinality(PngRefigChunks(png)) <= 1
  /\ Len(svgEmbedded) >= 2 =>
       /\ ExtractSvg(svg) = Extracted(Last(svgEmbedded))
       /\ SvgRefigElements(svg) = 1
  /\ Len(svgEmbedded) >= 1 => SvgRefigElements(svg) <= 1

\* C3: PNG embed_metadata leaves every chunk it was given untouched: after
\* the inserted first tEXt chunk, the output's chunks are the input's chunks,
\* type and data, in the same order.
C3_ChunksPreserved ==
  pngEmbedded # << >> =>
    LET out == IterChunks(png)
        in == IterChunks(pngIn)
    IN /\ out.chunks # << >>
       /\ out.chunks[1].type = TEXT_TYPE
       /\ Tail(out.chunks) = in.chunks
       /\ out.error = in.error

\* An image of two chunks or more was embedded into
C3_Witness ==
  /\ pngEmbedded # << >>
  /\ Len(IterChunks(pngIn).chunks) >= 2
  /\ Len(IterChunks(png).chunks) >= 3

\* C8: PNG extract_metadata on bytes that start with the signature and hold
\* no refig tEXt chunk fails with PNGMetadataError and with no other error,
\* also when the chunk stream is cut short inside a chunk.
C8_NoMetadataIsFormatError ==
  (StartsWith(png, PNG_SIGNATURE) /\ PngRefigChunks(png) = {}) =>
    ExtractPng(png).status = "PNGMetadataError"

(***************************************************************************)
(* _core.py: paths, timestamps and the metadata record                     *)
(***************************************************************************)

RECURSIVE SplitAt(_, _, _)
\* text.split("/") from the i-th character on, cur being the piece begun
SplitAt(text, i, cur) ==
  IF i > Len(text) THEN << cur >>
  ELSE IF text[i] = "/" THEN << cur >> \o SplitAt(text, i + 1, << >>)
  ELSE SplitAt(text, i + 1, Append(cur, text[i]))

\* Path(text) for a relative path: the sequence of its components, the
\* empty ones and the "." ones dropped, the ".." ones kept
Path(text) ==
  SelectSeq(SplitAt(text, 1, << >>), LAMBDA c : c # << >> /\ c # << "." >>)

\* path.name
PathName(path) == IF path = << >> THEN << >> ELSE path[Len(path)]

\* name.rfind(".") + 1: the index of the last dot, 0 for none
LastDot(name) ==
  LET dots == { k \in 1..Len(name) : name[k] = "." }
  IN IF dots = {} THEN 0 ELSE CHOOSE k \in dots : \A o \in dots : o <= k

\* path.suffix: from the last dot of the name on, when that dot is neither
\* the first nor the last character
PathSuffix(path) ==
  LET name == PathName(path)
      k == LastDot(name)
  IN IF 1 < k /\ k < Len(name) THEN SubSeq(name, k, Len(name)) ELSE << >>

\* path.stem
PathStem(path) ==
  LET name == PathName(path)
      k == LastDot(name)
  IN IF 1 < k /\ k < Len(name) THEN SubSeq(name, 1, k - 1) ELSE name

\* dir / text
Join(dir, text) == dir \o Path(text)

BASE_DIR == Path(<< "f", "i", "g", "u", "r", "e", "s" >>)
LATEST_DIR == Join(BASE_DIR, << "l", "a", "t", "e", "s", "t" >>)
HISTORY_DIR == Join(BASE_DIR, << "h", "i", "s", "t", "o", "r", "y" >>)
PNG_EXT == << ".", "p", "n", "g" >>
SVG_EXT == << ".", "s", "v", "g" >>
SUPPORTED_EXTENSIONS == { PNG_EXT, SVG_EXT }

\* The keys of the metadata record
KeyFigure == << "f", "i", "g", "u", "r", "e" >>
KeyCreatedAt == << "c", "r", "e", "a", "t", "e", "d", "_", "a", "t" >>
KeySource == << "s", "o", "u", "r", "c", "e" >>
KeyCellNumber == << "c", "e", "l", "l", "_", "n", "u", "m", "b", "e", "r" >>
KeyGitCommit == << "g", "i", "t", "_", "c", "o", "m", "m", "i", "t" >>
KeyRefigVersion == << "r", "e", "f", "i", "g", "_", "v", "e", "r", "s", "i", "o", "n" >>

NoGit == << "n", "o", "g", "i", "t" >>

\* n in decimal, zero-padded to the given width
Pad(n, width) ==
  LET digits == NatToStr(n)
  IN [ i \in 1..(width - Len(digits)) |-> "0" ] \o digits

\* A datetime: the fields of the wall clock it shows, whether it is aware of
\* a UTC offset, and that offset in minutes
Datetime(y, mo, d, h, mi, s, us, aware, offset) ==
  [ year |-> y, month |-> mo, day |-> d, hour |-> h, minute |-> mi,
    second |-> s, microsecond |-> us, aware |-> aware, offset |-> offset ]

\* The clock starts at noon UTC of 1 January 2024
ClockBase == Datetime(2024, 1, 1, 12, 0, 0, 0, TRUE, 0)

\* datetime.now(timezone.utc) when the clock shows n half seconds
NowUtc(n) ==
  [ ClockBase EXCEPT !.minute = (n \div 2) \div 60,
                     !.second = (n \div 2) % 60,
                     !.microsecond = (n % 2) * 500000 ]

\* dt.strftime("%Y%m%dT%H%M%S"): the fields of the wall clock dt shows,
\* whatever its offset
Strftime(dt) ==
  NatToStr(dt.year) \o Pad(dt.month, 2) \o Pad(dt.day, 2) \o << "T" >>
    \o Pad(dt.hour, 2) \o Pad(dt.minute, 2) \o Pad(dt.second, 2)

\* dt.isoformat() of an aware datetime
Isoformat(dt) ==
  LET abs == IF dt.offset < 0 THEN 0 - dt.offset ELSE dt.offset
  IN Pad(dt.year, 4) \o << "-" >> \o Pad(dt.month, 2) \o << "-" >> \o Pad(dt.day, 2)
       \o << "T" >> \o Pad(dt.hour, 2) \o << ":" >> \o Pad(dt.minute, 2)
       \o << ":" >> \o Pad(dt.second, 2)
       \o (IF dt.microsecond = 0 THEN << >>
           ELSE << "." >> \o Pad(dt.microsecond, 6))
       \o << (IF dt.offset < 0 THEN "-" ELSE "+") >>
       \o Pad(abs \div 60, 2) \o << ":" >> \o Pad(abs % 60, 2)

IsLeap(y) == (y % 4 = 0 /\ y % 100 # 0) \/ y % 400 = 0

DaysInMonth(y, mo) ==
  IF mo = 2 THEN (IF IsLeap(y) THEN 29 ELSE 28)
  ELSE IF mo \in {4, 6, 9, 11} THEN 30 ELSE 31

\* Whether text[lo..hi] is all digits
AllDigits(text, lo, hi) ==
  hi <= Len(text) /\ \A k \in lo..hi : IsDigit(text[k])

IsoFail == [ ok |-> FALSE ]

\* The UTC offset text[lo..]: Z, or a sign, hours, a colon and minutes
IsoOffset(text, lo) ==
  LET n == Len(text) IN
    IF lo = n /\ text[lo] = "Z" THEN [ ok |-> TRUE, offset |-> 0 ]
    ELSE IF /\ n = lo + 5
            /\ text[lo] \in {"+", "-"}
            /\ AllDigits(text, lo + 1, lo + 2)
            /\ text[lo + 3] = ":"
            /\ AllDigits(text, lo + 4, lo + 5)
    THEN LET hh == DigitsValue(text, lo + 1, lo + 2)
             mm == DigitsValue(text, lo + 4, lo + 5)
         IN IF hh > 23 \/ mm > 59 THEN IsoFail
            ELSE [ ok |-> TRUE,
                   offset |-> IF text[lo] = "-" THEN 0 - (hh * 60 + mm)
                              ELSE hh * 60 + mm ]
    ELSE IsoFail

\* datetime.fromisoformat(text), for the extended format with whole fields:
\* YYYY-MM-DD, then nothing more, or one separator character, hh:mm:ss, a
\* fraction of six digits or none, and a UTC offset or none.  What has
\* another shape is refused.
FromIsoformat(text) ==
  LET n == Len(text) IN
    IF ~(/\ n >= 10
         /\ AllDigits(text, 1, 4) /\ text[5] = "-"
         /\ AllDigits(text, 6, 7) /\ text[8] = "-"
         /\ AllDigits(text, 9, 10))
    THEN IsoFail
    ELSE
      LET y == DigitsValue(text, 1, 4)
          mo == DigitsValue(text, 6, 7)
          d == DigitsValue(text, 9, 10)
      IN IF y < 1 \/ mo < 1 \/ mo > 12 \/ d < 1 \/ d > DaysInMonth(y, mo) THEN IsoFail
         ELSE IF n = 10
         THEN [ ok |-> TRUE, dt |-> Datetime(y, mo, d, 0, 0, 0, 0, FALSE, 0) ]
         ELSE IF ~(/\ n >= 19
                   /\ AllDigits(text, 12, 13) /\ text[14] = ":"
                   /\ AllDigits(text, 15, 16) /\ text[17] = ":"
                   /\ AllDigits(text, 18, 19))
         THEN IsoFail
         ELSE
           LET h == DigitsValue(text, 12, 13)
               mi == DigitsValue(text, 15, 16)
               s == DigitsValue(text, 18, 19)
               frac == n >= 26 /\ text[20] = "." /\ AllDigits(text, 21, 26)
               us == IF frac THEN DigitsValue(text, 21, 26) ELSE 0
               rest == IF frac THEN 27 ELSE 20
           IN IF h > 23 \/ mi > 59 \/ s > 59 THEN IsoFail
              ELSE IF rest > n
              THEN [ ok |-> TRUE, dt |-> Datetime(y, mo, d, h, mi, s, us, FALSE, 0) ]
              ELSE LET tz == IsoOffset(text, rest) IN
                IF ~tz.ok THEN IsoFail
                ELSE [ ok |-> TRUE,
                       dt |-> Datetime(y, mo, d, h, mi, s, us, TRUE, tz.offset) ]

\* mapping.get(key)
Get(mapping, key) == IF key \in DOMAIN mapping THEN mapping[key] ELSE JNull

\* _format_timestamp_token(value), now being what the clock shows when it
\* is read.  A value is a JSON value or [t |-> "datetime", dt |-> ...].
FormatTimestampToken(value, now) ==
  IF value.t = "str"
  THEN LET parsed == FromIsoformat(value.s) IN
    IF ~parsed.ok
    THEN LET sanitized == SelectSeq(value.s, IsAlnum)
         IN IF sanitized # << >> THEN sanitized ELSE Strftime(now)
    ELSE IF ~parsed.dt.aware
    THEN Strftime([ parsed.dt EXCEPT !.aware = TRUE, !.offset = 0 ])
    ELSE Strftime(parsed.dt)
  ELSE IF value.t = "datetime"
  THEN (IF ~value.dt.aware
        THEN Strftime([ value.dt EXCEPT !.aware = TRUE, !.offset = 0 ])
        ELSE Strftime(value.dt))
  ELSE Strftime(now)

\* A _format_git_hash that cuts before it trims: what C6 rules out
FormatGitHashCutFirst(value) ==
  IF value.t = "str" /\ value.s # << >>
  THEN (IF Strip(Slice(value.s, 0, 7)) # << >> THEN Strip(Slice(value.s, 0, 7)) ELSE NoGit)
  ELSE NoGit

\* _format_git_hash(value)
FormatGitHash(value) ==
  IF value.t = "str" /\ value.s # << >>
  THEN Slice(IF Strip(value.s) # << >> THEN Strip(value.s) ELSE NoGit, 0, 7)
  ELSE NoGit

\* The optional data sources of the record, but for the revision: where the
\* call comes from, the notebook cell, the installed version
InferSourcePath == JStr(<< "/", "w", "/", "r", "u", "n", ".", "p", "y" >>)
InferCellNumber == JNull
GetRefigVersion == JStr(<< "0", ".", "1", ".", "0" >>)

\* dict.update: the entries of extra win
Update(metadata, extra) ==
  [ k \in DOMAIN metadata \cup DOMAIN extra |->
      IF k \in DOMAIN extra THEN extra[k] ELSE metadata[k] ]

\* A _build_metadata whose figure field is the stem, not the file name: what
\* C5 rules out
BuildMetadataOfStem(path, extra, now, head) ==
  LET metadata ==
        [ k \in { KeyFigure, KeyCreatedAt, KeySource, KeyCellNumber,
                  KeyGitCommit, KeyRefigVersion } |->
            IF k = KeyFigure THEN JStr(PathStem(path))
            ELSE IF k = KeyCreatedAt THEN JStr(Isoformat(now))
            ELSE IF k = KeySource THEN InferSourcePath
            ELSE IF k = KeyCellNumber THEN InferCellNumber
            ELSE IF k = KeyGitCommit THEN head
            ELSE GetRefigVersion ]
  IN IF extra # << >> THEN Update(metadata, extra) ELSE metadata

\* _build_metadata(path, extra), now being what the clock shows and head
\* what _infer_git_commit() returns
BuildMetadata(path, extra, now, head) ==
  LET metadata ==
        [ k \in { KeyFigure, KeyCreatedAt, KeySource, KeyCellNumber,
                  KeyGitCommit, KeyRefigVersion } |->
            IF k = KeyFigure THEN JStr(PathName(path))
            ELSE IF k = KeyCreatedAt THEN JStr(Isoformat(now))
            ELSE IF k = KeySource THEN InferSourcePath
            ELSE IF k = KeyCellNumber THEN InferCellNumber
            ELSE IF k = KeyGitCommit THEN head
            ELSE GetRefigVersion ]
  IN IF extra # << >> THEN Update(metadata, extra) ELSE metadata

\* The locals timestamp_token and git_hash of _build_history_path
TimestampTokenOf(metadata, now) == FormatTimestampToken(Get(metadata, KeyCreatedAt), now)
GitHashOf(metadata) == FormatGitHash(Get(metadata, KeyGitCommit))

\* _build_history_path(path, metadata), now being what the clock shows
BuildHistoryPath(path, metadata, now) ==
  LET stem == PathStem(path)
      figure_dir == Join(HISTORY_DIR, stem)
      timestamp_token == TimestampTokenOf(metadata, now)
      git_hash == GitHashOf(metadata)
      lowered == Lower(PathSuffix(path))
      suffix == IF lowered \notin SUPPORTED_EXTENSIONS THEN PNG_EXT ELSE lowered
      history_name == << "_" >> \o timestamp_token \o << "_" >> \o git_hash \o suffix
  IN Join(figure_dir, history_name)

(***************************************************************************)
(* The history path of one figure name and one caller's metadata           *)
(***************************************************************************)

\* The figure names used: plain, in a directory and with an upper-case
\* extension, of the other format, and without an extension
Names ==
  { << "p", "l", "o", "t", ".", "p", "n", "g" >>,
    << "s", "u", "b", "/", "p", "l", "o", "t", ".", "P", "N", "G" >>,
    << "p", "l", "o", "t", ".", "s", "v", "g" >>,
    << "n", "o", "t", "e", "s" >> }

\* A full revision, of 40 hexadecimal digits
Hex40 ==
  << "0", "1", "2", "3", "4", "5", "6", "7", "8", "9", "a", "b", "c", "d",
     "e", "f", "0", "1", "2", "3", "4", "5", "6", "7", "8", "9", "a", "b",
     "c", "d", "e", "f", "0", "1", "2", "3", "4", "5", "6", "7" >>

\* The answers of git rev-parse HEAD
GitHeads == { JNull, JStr(Hex40) }

\* A key the caller's metadata does not have
Absent == [ t |-> "absent" ]

\* The created_at values of the caller's metadata: timestamps in UTC, east
\* and west of it, without an offset and without a time, text that is no
\* timestamp, and values that are no text
CreatedAts ==
  { Absent,
    JStr(<< "2", "0", "2", "4", "-", "0", "1", "-", "0", "1", "T", "1",
            "2", ":", "0", "0", ":", "0", "0", "+", "0", "0", ":", "0",
            "0" >>),
    JStr(<< "2", "0", "2", "4", "-", "0", "1", "-", "0", "1", "T", "1",
            "2", ":", "0", "0", ":", "0", "0", "+", "0", "5", ":", "0",
            "0" >>),
    JStr(<< "2", "0", "2", "4", "-", "0", "1", "-", "0", "1", "T", "0",
            "1", ":", "3", "0", ":", "0", "0", ".", "2", "5", "0", "0",
            "0", "0", "+", "0", "5", ":", "0", "0" >>),
    JStr(<< "2", "0", "2", "4", "-", "0", "3", "-", "0", "1", "T", "2",
            "2", ":", "0", "0", ":", "0", "0", "-", "0", "3", ":", "0",
            "0" >>),
    JStr(<< "2", "0", "2", "4", "-", "0", "1", "-", "0", "1", "T", "1",
            "2", ":", "0", "0", ":", "0", "0" >>),
    JStr(<< "2", "0", "2", "4", "-", "0", "1", "-", "0", "1" >>),
    JStr(<< "T", "1" >>),
    JStr(<< "a", "/", "b", " ", "c" >>),
    JStr(<< "-", "-" >>),
    JStr(<< >>),
    JInt(5),
    JNull }

\* The git_commit values of the caller's metadata
GitCommits ==
  { Absent,
    JStr(Hex40),
    JStr(<< " ", "a", "b", "c", " " >>),
    JStr(<< " ", " ", "a", "b", "c", "d", "e", "f", "g", "h", "i", " " >>),
    JStr(<< " ", "\t" >>),
    JStr(<< "a", "/", ".", ".", "/", "b" >>),
    JStr(<< "x", "/", ".", ".", "/", "b" >>),
    JStr(<< >>),
    JInt(5),
    JNull }

\* The caller's metadata that overrides created_at and git_commit, or not
ExtraOf(created_at, git_commit) ==
  [ k \in { key \in { KeyCreatedAt, KeyGitCommit } :
              (IF key = KeyCreatedAt THEN created_at ELSE git_commit) # Absent } |->
      IF k = KeyCreatedAt THEN created_at ELSE git_commit ]

HistInit ==
  /\ PngIdle /\ SvgIdle /\ SaveIdle
  /\ clock = 0
  /\ gitHead \in GitHeads
  /\ hName \in Names
  /\ hExtra \in { ExtraOf(c, g) : c \in CreatedAts, g \in GitCommits }
  /\ hRecord = << >>
  /\ hPath = << >>
  /\ hTs = << >>
  /\ hRev = << >>

\* Half a second passes
Tick ==
  /\ clock < MaxTicks
  /\ clock' = clock + 1
  /\ UNCHANGED << gitHead, pngVars, svgVars, histVars, saveVars >>

\* _build_metadata(Path(hName), hExtra)
HistBuildMetadata ==
  /\ hRecord = << >>
  /\ hRecord' = BuildMetadata(Path(hName), hExtra, NowUtc(clock), gitHead)
  /\ UNCHANGED << hName, hExtra, hPath, hTs, hRev, envVars, pngVars, svgVars, saveVars >>

\* _build_history_path(Path(hName), hRecord)
HistBuildHistoryPath ==
  /\ hRecord # << >>
  /\ hPath = << >>
  /\ hPath' = BuildHistoryPath(Path(hName), hRecord, NowUtc(clock))
  /\ hTs' = TimestampTokenOf(hRecord, NowUtc(clock))
  /\ hRev' = GitHashOf(hRecord)
  /\ UNCHANGED << hName, hExtra, hRecord, envVars, pngVars, svgVars, saveVars >>

HistNext ==
  \/ Tick
  \/ HistBuildMetadata
  \/ HistBuildHistoryPath

SpecHist == HistInit /\ [][HistNext]_vars

(***************************************************************************)
(* The history path's claims                                               *)
(***************************************************************************)

\* C6: the revision token is the record's git_commit, trimmed and then cut
\* to its first 7 characters, and is nogit when git_commit is absent, no
\* string, empty, or empty once trimmed
C6_RevisionToken ==
  hPath # << >> =>
    LET v == Get(hRecord, KeyGitCommit)
        trimmed == IF v.t = "str" THEN Strip(v.s) ELSE << >>
    IN hRev = IF trimmed = << >> THEN NoGit
              ELSE SubSeq(trimmed, 1, Min(7, Len(trimmed)))

\* A revision of 40 hexadecimal digits gave a token of 7 characters
C6_Witness ==
  /\ hPath # << >>
  /\ Get(hRecord, KeyGitCommit) = JStr(Hex40)
  /\ hRev = SubSeq(Hex40, 1, 7)

\* The days from 1 January 1970 to a date of the Gregorian calendar
DaysFromCivil(y, mo, d) ==
  LET yy == IF mo <= 2 THEN y - 1 ELSE y
      era == yy \div 400
      yoe == yy - era * 400
      doy == ((153 * (IF mo > 2 THEN mo - 3 ELSE mo + 9) + 2) \div 5) + d - 1
      doe == yoe * 365 + (yoe \div 4) - (yoe \div 100) + doy
  IN era * 146097 + doe - 719468

\* The date that many days after 1 January 1970
CivilFromDays(days) ==
  LET z == days + 719468
      era == z \div 146097
      doe == z - era * 146097
      yoe == (doe - (doe \div 1460) + (doe \div 36524) - (doe \div 146096)) \div 365
      doy == doe - (365 * yoe + (yoe \div 4) - (yoe \div 100))
      mp == (5 * doy + 2) \div 153
      mo == IF mp < 10 THEN mp + 3 ELSE mp - 9
  IN [ year |-> IF mo <= 2 THEN yoe + era * 400 + 1 ELSE yoe + era * 400,
       month |-> mo,
       day |-> doy - ((153 * mp + 2) \div 5) + 1 ]

\* The same instant on the wall clock of UTC
ToUtc(dt) ==
  LET minutes == DaysFromCivil(dt.year, dt.month, dt.day) * 1440
                   + dt.hour * 60 + dt.minute - dt.offset
      date == CivilFromDays(minutes \div 1440)
  IN [ dt EXCEPT !.year = date.year, !.month = date.month, !.day = date.day,
                 !.hour = (minutes % 1440) \div 60, !.minute = minutes % 60,
                 !.offset = 0 ]

\* C7: when created_at is a string that parses as an ISO-8601 timestamp,
\* of any UTC offset, the timestamp token is that instant in UTC as
\* YYYYMMDDThhmmss
C7_TimestampTokenInUtc ==
  hPath # << >> =>
    LET v == Get(hRecord, KeyCreatedAt) IN
      (v.t = "str" /\ FromIsoformat(v.s).ok) =>
        hTs = Strftime(ToUtc(FromIsoformat(v.s).dt))

\* C10: the history path is a file right under figures/history/<stem>/ and
\* the latest path a file right under figures/latest/: no token holds a
\* path separator or adds a component
C10_PathsAreDirectChildren ==
  hPath # << >> =>
    LET path == Path(hName) IN
      /\ hPath = Join(HISTORY_DIR, PathStem(path)) \o << PathName(hPath) >>
      /\ Len(hPath) = Len(HISTORY_DIR) + 2
      /\ \A k \in 1..Len(hTs) : hTs[k] # "/"
      /\ \A k \in 1..Len(hRev) : hRev[k] # "/"
      /\ Len(Join(LATEST_DIR, PathName(path))) = Len(LATEST_DIR) + 1

(***************************************************************************)
(* _core.py: savefig and the files it writes                               *)
(***************************************************************************)

RECURSIVE Resolve(_)
\* The place a path names, as the system walks it from the working
\* directory: a ".." component steps back out of the directory reached
Resolve(path) ==
  IF path = << >> THEN << >>
  ELSE LET parent == Resolve(SubSeq(path, 1, Len(path) - 1))
           last == path[Len(path)]
       IN IF last = << ".", "." >> /\ parent # << >> /\ parent[Len(parent)] # << ".", "." >>
          THEN SubSeq(parent, 1, Len(parent) - 1)
          ELSE Append(parent, last)

\* dir.mkdir(parents=True, exist_ok=True): every directory on the way is
\* made, up to the first place taken by a file, where the system refuses
Mkdir(files, dir) ==
  LET taken == { k \in 1..Len(dir) : Resolve(SubSeq(dir, 1, k)) \in DOMAIN files.files }
      stop == IF taken = {} THEN Len(dir) + 1
              ELSE CHOOSE k \in taken : \A o \in taken : k <= o
  IN [ ok |-> taken = {},
       fs |-> [ files EXCEPT !.dirs =
                  @ \cup ({ Resolve(SubSeq(dir, 1, k)) : k \in 1..(stop - 1) } \ { << >> }) ] ]

\* _write_bytes(path, payload): the parent directories are made, then the
\* file is written whole; the system refuses to write over a directory
WriteBytes(files, path, payload) ==
  LET made == Mkdir(files, SubSeq(path, 1, Len(path) - 1))
      target == Resolve(path)
  IN IF ~made.ok \/ target \in made.fs.dirs THEN [ ok |-> FALSE, fs |-> made.fs ]
     ELSE [ ok |-> TRUE,
            fs |-> [ made.fs EXCEPT !.files =
                       [ p \in DOMAIN @ \cup { target } |->
                           IF p = target THEN payload ELSE @[p] ] ] ]

\* The figures: a chart the renderer draws, and a figure whose renderer
\* writes nothing
Figures == { "chart", "blank" }

PngChart ==
  PNG_SIGNATURE \o WholeChunk(<< 73, 68, 65, 84 >>, << 7, 0 >>)
    \o WholeChunk(<< 73, 69, 78, 68 >>, << >>)

SvgChart == Utf8Encode(<< "<", "s", "v", "g", " ", "w", "i", "d", "t", "h", "=", "\"", "1",
     "\"", ">", "<", "g", "/", ">", "<", "/", "s", "v", "g", ">" >>)

\* _render_figure(figure, image_format, {}): what figure.savefig writes into
\* the buffer for that format
RenderFigure(figure, image_format) ==
  IF figure = "blank" THEN << >>
  ELSE IF image_format = << "p", "n", "g" >> THEN PngChart
  ELSE SvgChart

\* What a savefig call that raised leaves behind
Raised(outcome, files) ==
  [ outcome |-> outcome, fs |-> files, latest_path |-> << >>, history_path |-> << >>,
    metadata |-> << >>, image_bytes |-> << >> ]

\* savefig, the two writes and the return: the SaveResult and the bytes
\* written, or the refusal of the system
SavefigWrite(files, latest_path, history_path, metadata_payload, image_bytes) ==
  LET first == WriteBytes(files, latest_path, image_bytes)
      second == WriteBytes(first.fs, history_path, image_bytes)
  IN IF ~first.ok THEN Raised("OSError", first.fs)
     ELSE IF ~second.ok THEN Raised("OSError", second.fs)
     ELSE [ outcome |-> "ok", fs |-> second.fs,
            latest_path |-> latest_path, history_path |-> history_path,
            metadata |-> metadata_payload, image_bytes |-> image_bytes ]

\* savefig, the try block: the codec of the suffix embeds the record
EmbedFor(suffix, image_bytes, metadata_payload) ==
  IF suffix = PNG_EXT THEN EmbedPng(image_bytes, metadata_payload)
  ELSE EmbedSvg(image_bytes, metadata_payload)

\* savefig, from the except clause on: a codec error is raised again as a
\* RuntimeError, else the paths are computed and the files written
SavefigStore(files, path, metadata_payload, embedded, now) ==
  IF embedded.status # "ok" THEN Raised("RuntimeError", files)
  ELSE SavefigWrite(files, Join(LATEST_DIR, PathName(path)),
                    BuildHistoryPath(path, metadata_payload, now),
                    metadata_payload, embedded.bytes)

\* savefig, from _build_metadata to the embedding, for a supported suffix
SavefigRender(files, path, suffix, metadata_payload, figure, now) ==
  SavefigStore(files, path, metadata_payload,
               EmbedFor(suffix, RenderFigure(figure, SubSeq(suffix, 2, Len(suffix))),
                        metadata_payload),
               now)

\* A savefig that writes the rendered bytes to the latest file before it
\* embeds, and the embedded bytes over them afterwards: what C4 rules out
SavefigWritingFirst(files, name, figure, extra, now, head) ==
  LET path == Path(name)
      suffix == Lower(PathSuffix(path))
  IN IF suffix \notin SUPPORTED_EXTENSIONS THEN Raised("ValueError", files)
     ELSE SavefigRender(
            WriteBytes(files, Join(LATEST_DIR, PathName(path)),
                       RenderFigure(figure, SubSeq(suffix, 2, Len(suffix)))).fs,
            path, suffix, BuildMetadata(path, extra, now, head), figure, now)

\* savefig(name, figure=figure, metadata=extra) on the files at hand, now
\* being what the clock shows and head what _infer_git_commit() returns.
\* The outcome is ok or the exception raised; a call that returns gives the
\* SaveResult and the bytes written.
Savefig(files, name, figure, extra, now, head) ==
  LET path == Path(name)
      suffix == Lower(PathSuffix(path))
  IN IF suffix \notin SUPPORTED_EXTENSIONS THEN Raised("ValueError", files)
     ELSE SavefigRender(files, path, suffix, BuildMetadata(path, extra, now, head),
                        figure, now)

(***************************************************************************)
(* Successive savefig calls in one working directory                       *)
(***************************************************************************)

\* The figure names saved: a PNG, and an SVG in a directory and with an
\* upper-case extension
SaveNames ==
  { << "p", "l", "o", "t", ".", "p", "n", "g" >>,
    << "s", "u", "b", "/", "p", "l", "o", "t", ".", "S", "V", "G" >> }

\* A figure name of a format that is not supported
JpgName == << "p", "l", "o", "t", ".", "j", "p", "g" >>

\* The caller's metadata: none, or a revision of its own
SaveExtras ==
  { << >>,
    ExtraOf(Absent, JStr(<< "a", "/", ".", ".", "/", "b" >>)),
    ExtraOf(Absent, JStr(<< "x", "/", ".", ".", "/", "b" >>)) }

\* The calls made: a chart under each name with each metadata, a figure
\* that renders to nothing under each name, and a chart under the name of
\* the format that is not supported
SaveCalls ==
  { [ name |-> n, figure |-> "chart", extra |-> e ] : n \in SaveNames, e \in SaveExtras }
    \cup { [ name |-> n, figure |-> "blank", extra |-> << >> ] : n \in SaveNames }
    \cup { [ name |-> JpgName, figure |-> "chart", extra |-> << >> ] }

SaveInit ==
  /\ PngIdle /\ SvgIdle /\ HistIdle
  /\ clock = 0
  /\ gitHead \in GitHeads
  /\ fs = [dirs |-> {}, files |-> << >>]
  /\ calls = << >>

\* The call as it is kept: what it was given, its outcome, what it returned
\* and the two tokens of its history file name
CallOf(name, figure, extra, r, now) ==
  [ name |-> name, figure |-> figure, extra |-> extra,
    outcome |-> r.outcome,
    latest_path |-> r.latest_path, history_path |-> r.history_path,
    metadata |-> r.metadata, image_bytes |-> r.image_bytes,
    timestamp_token |-> IF r.outcome = "ok" THEN TimestampTokenOf(r.metadata, now)
                        ELSE << >>,
    git_hash |-> IF r.outcome = "ok" THEN GitHashOf(r.metadata) ELSE << >> ]

\* The call ends: the files are what savefig left and the call is kept
Returns(name, figure, extra, r) ==
  /\ fs' = r.fs
  /\ calls' = Append(calls, CallOf(name, figure, extra, r, NowUtc(clock)))

\* One savefig call, from its first line to its return or its exception
Save(name, figure, extra) ==
  /\ Len(calls) < MaxSaves
  /\ Returns(name, figure, extra,
             Savefig(fs, name, figure, extra, NowUtc(clock), gitHead))
  /\ UNCHANGED << envVars, pngVars, svgVars, histVars >>

SaveNext ==
  \/ Tick
  \/ \E c \in SaveCalls : Save(c.name, c.figure, c.extra)

SpecSave == SaveInit /\ [][SaveNext]_vars

(***************************************************************************)
(* savefig's claims                                                        *)
(***************************************************************************)

\* C4: a savefig call that fails, because of the extension of the name or
\* because the codec rejects the rendered bytes, writes nothing: the
\* directories and files are what they were before the call
C4_FailedSaveWritesNothing ==
  [][ (/\ Len(calls') = Len(calls) + 1
       /\ Last(calls').outcome \in { "ValueError", "RuntimeError" })
      => fs' = fs ]_vars

\* Both kinds of failure happened, the second with files on disk
C4_Witness ==
  /\ Len(calls) = 2
  /\ calls[1].outcome = "ok"
  /\ calls[2].outcome = "RuntimeError"
  /\ fs.files # << >>

\* C5: a savefig call that returns, for a supported name and no caller
\* metadata, has written figures/latest/<file name> and
\* figures/history/<stem>/_<timestamp>_<revision><ext> with the same bytes,
\* and the record's figure field is the file name
C5_SavedTwice ==
  (calls # << >> /\ Last(calls).outcome = "ok" /\ Last(calls).extra = << >>) =>
    LET c == Last(calls)
        path == Path(c.name)
        file_name == PathName(path)
        ext == Lower(PathSuffix(path))
        latest == << << "f", "i", "g", "u", "r", "e", "s" >>, << "l", "a", "t", "e", "s", "t" >>, file_name >>
        history == << << "f", "i", "g", "u", "r", "e", "s" >>, << "h", "i", "s", "t", "o", "r", "y" >>, PathStem(path),
                      << "_" >> \o c.timestamp_token \o << "_" >> \o c.git_hash \o ext >>
    IN /\ c.latest_path = latest
       /\ c.history_path = history
       /\ latest \in DOMAIN fs.files
       /\ history \in DOMAIN fs.files
       /\ fs.files[latest] = fs.files[history]
       /\ fs.files[latest] = c.image_bytes
       /\ c.metadata[KeyFigure] = JStr(file_name)
       /\ c.timestamp_token = Strftime(FromIsoformat(c.metadata[KeyCreatedAt].s).dt)
       /\ c.git_hash = IF gitHead = JNull THEN NoGit ELSE SubSeq(gitHead.s, 1, 7)

\* A save of a name in a directory returned, with no caller metadata
C5_Witness ==
  /\ calls # << >>
  /\ Last(calls).outcome = "ok"
  /\ Last(calls).extra = << >>
  /\ Len(Path(Last(calls).name)) = 2
  /\ Last(calls).history_path \in DOMAIN fs.files

\* C9: figures/latest/<file name> holds the bytes of the last save of that
\* file name; two saves write the same history file only when they have
\* the same stem, extension, timestamp token and revision token, and then
\* the file holds the bytes of the later one; every other history file
\* holds the bytes of the save that wrote it
C9_LatestAndSnapshots ==
  LET Ok == { i \in 1..Len(calls) : calls[i].outcome = "ok" }
      File(i) == PathName(Path(calls[i].name))
      Snapshot(i) == Resolve(calls[i].history_path)
  IN /\ \A i \in Ok :
          (\A j \in Ok : j > i => File(j) # File(i)) =>
            fs.files[Join(LATEST_DIR, File(i))] = calls[i].image_bytes
     /\ \A i \in Ok : \A j \in Ok :
          (i < j /\ Snapshot(i) = Snapshot(j)) =>
            /\ PathStem(Path(calls[i].name)) = PathStem(Path(calls[j].name))
            /\ Lower(PathSuffix(Path(calls[i].name))) = Lower(PathSuffix(Path(calls[j].name)))
            /\ calls[i].timestamp_token = calls[j].timestamp_token
            /\ calls[i].git_hash = calls[j].git_hash
     /\ \A i \in Ok :
          (\A j \in Ok : j > i => Snapshot(j) # Snapshot(i)) =>
            fs.files[Snapshot(i)] = calls[i].image_bytes


====
